---- MODULE Spec2Model ----
(***************************************************************************)
(* Carbon footprint calculator: validate_input and compute of src/app.py.  *)
(*                                                                         *)
(* A submission is the eight raw form inputs.  A text is a sequence of     *)
(* one-character strings.  A raw numeric input is a record [k, v]:         *)
(*   k = "num"     an int/float whose value is v / Scale                   *)
(*   k = "nan"     the float nan                                           *)
(*   k = "numstr"  a str that float() parses, to v / Scale                 *)
(*   k = "str"     a str that float() does not parse (ValueError)          *)
(*   k = "none"    None (TypeError in float())                             *)
(***************************************************************************)
EXTENDS Integers, Sequences, FiniteSets, TLC

VARIABLES sub, err, ret, files, path, steps, calls

vars == <<sub, err, ret, files, path, steps, calls>>

(***************************************************************************)
(* Bounds of the model.                                                    *)
(***************************************************************************)
\* numeric inputs are multiples of 1/Scale
Scale == 2
\* how many of the eight fields of a checked submission differ from Default
MaxDeviations == 2
\* how many submissions one run of the application handles
MaxCalls == 2

(***************************************************************************)
(* Program constants.                                                      *)
(***************************************************************************)
NameMax == 100
ElectricityCeiling == 10000
WasteCeiling == 1000
PercentMax == 100
StemMax == 10

Num(n) == [k |-> "num", v |-> n]
NumStr(n) == [k |-> "numstr", v |-> n]
NaN == [k |-> "nan", v |-> 0]
BadStr == [k |-> "str", v |-> 0]
None == [k |-> "none", v |-> 0]

(***************************************************************************)
(* Python: float(value).  The result is a float (k = "f", value v/Scale),  *)
(* the float nan, or an exception (TypeError for None, ValueError for a    *)
(* str that is no number).                                                 *)
(***************************************************************************)
float(x) ==
    CASE x.k = "num" -> [k |-> "f", v |-> x.v]
      [] x.k = "numstr" -> [k |-> "f", v |-> x.v]
      [] x.k = "nan" -> [k |-> "nan", v |-> 0]
      [] x.k = "none" -> [k |-> "TypeError", v |-> 0]
      [] OTHER -> [k |-> "ValueError", v |-> 0]

Raises(f) == f.k \in {"TypeError", "ValueError"}

\* Python float comparisons against an integer literal n: every comparison
\* with nan is False.
\* slip: < where the code has <=
LessEq_Strict(f, n) == f.k = "f" /\ f.v < n * Scale
LessEq(f, n) == f.k = "f" /\ f.v <= n * Scale
Less(f, n) == f.k = "f" /\ f.v < n * Scale
\* slip: >= where the code has >
Greater_OrEqual(f, n) == f.k = "f" /\ f.v >= n * Scale
Greater(f, n) == f.k = "f" /\ f.v > n * Scale

(***************************************************************************)
(* Python str methods on a text.                                           *)
(***************************************************************************)
Whitespace == {" ", "\t"}

\* str.isspace(): at least one character and all of them whitespace
isspace(s) == Len(s) > 0 /\ \A i \in 1..Len(s) : s[i] \in Whitespace

\* str.lower() of one character; U+0130 lowers to two characters
LowerChar(c) ==
    CASE c = "A" -> <<"a">>
      [] c = "B" -> <<"b">>
      [] c = "U+0130" -> <<"i", "U+0307">>
      [] OTHER -> <<c>>

RECURSIVE lower(_)
lower(s) == IF s = <<>> THEN <<>> ELSE LowerChar(Head(s)) \o lower(Tail(s))

\* str.replace(old, new) for one-character old and new
replace(s, old, new) == [i \in 1..Len(s) |-> IF s[i] = old THEN new ELSE s[i]]

\* s[:n]
Slice(s, n) == SubSeq(s, 1, IF Len(s) < n THEN Len(s) ELSE n)

(***************************************************************************)
(* gr.Error values.  NoError stands for validate_input returning None.     *)
(***************************************************************************)
Error(name, msg) == [name |-> name, msg |-> msg]
NoError == Error("", "ok")

non_zero_fields(s) ==
    << <<"Electricity Bill", s.avg_electric_bill>>,
       <<"Gas Bill", s.avg_gas_bill>>,
       <<"Transport Cost", s.avg_transport_cost>>,
       <<"Monthly Waste", s.monthly_waste_generated>>,
       <<"Annual Travel Distance", s.annual_travel_kms>>,
       <<"Fuel Efficiency", s.fuel_efficiency>> >>

\* slip: the waste ceiling without the test on the field's name
CheckField_CeilingOnEveryField(name, value) ==
    LET float_val == float(value) IN
    IF Raises(float_val) THEN Error(name, "must be a valid number")
    ELSE IF float_val.k = "f" /\ float_val.v <= 0 THEN Error(name, "must be positive")
    ELSE IF name = "Electricity Bill" /\ float_val.k = "f"
            /\ float_val.v > ElectricityCeiling * Scale
         THEN Error(name, "unrealistically high")
    ELSE IF float_val.k = "f" /\ float_val.v > WasteCeiling * Scale
         THEN Error(name, "extremely high")
    ELSE NoError

\* the body of the loop over non_zero_fields, for one (name, value)
CheckField(name, value) ==
    LET float_val == float(value) IN
    IF Raises(float_val) THEN Error(name, "must be a valid number")
    ELSE IF LessEq(float_val, 0) THEN Error(name, "must be positive")
    ELSE IF name = "Electricity Bill" /\ Greater(float_val, ElectricityCeiling)
         THEN Error(name, "unrealistically high")
    ELSE IF name = "Monthly Waste" /\ Greater(float_val, WasteCeiling)
         THEN Error(name, "extremely high")
    ELSE NoError

\* the loop: the first error raised ends it
RECURSIVE CheckFields(_, _)
CheckFields(fields, i) ==
    IF i > Len(fields) THEN NoError
    ELSE LET e == CheckField(fields[i][1], fields[i][2]) IN
         IF e # NoError THEN e ELSE CheckFields(fields, i + 1)

\* slip: <= 0 where the code has < 0
CheckPercent_ZeroRejected(value) ==
    LET recycled_percent == float(value) IN
    IF Raises(recycled_percent) THEN Error("Recycled waste percentage", "must be a valid number")
    ELSE IF (recycled_percent.k = "f" /\ recycled_percent.v <= 0)
            \/ (recycled_percent.k = "f" /\ recycled_percent.v > PercentMax * Scale)
         THEN Error("Recycled waste percentage", "must be between 0 and 100")
    ELSE NoError

CheckPercent(value) ==
    LET recycled_percent == float(value) IN
    IF Raises(recycled_percent) THEN Error("Recycled waste percentage", "must be a valid number")
    ELSE IF Less(recycled_percent, 0) \/ Greater(recycled_percent, PercentMax)
         THEN Error("Recycled waste percentage", "must be between 0 and 100")
    ELSE NoError

\* slip: >= where the code has >
CheckCompanyName_OffByOne(company_name) ==
    IF company_name = <<>> \/ isspace(company_name)
    THEN Error("Company name", "empty or whitespace")
    ELSE IF Len(company_name) >= NameMax
    THEN Error("Company name", "too long")
    ELSE NoError

CheckCompanyName(company_name) ==
    IF company_name = <<>> \/ isspace(company_name)
    THEN Error("Company name", "empty or whitespace")
    ELSE IF Len(company_name) > NameMax
    THEN Error("Company name", "too long")
    ELSE NoError

\* slip: the percentage checked before the loop over non_zero_fields
validate_input_PercentFirst(s) ==
    LET e1 == CheckCompanyName(s.company_name)
        e2 == CheckPercent(s.recycled_waste_percent)
    IN  IF e1 # NoError THEN e1
        ELSE IF e2 # NoError THEN e2
        ELSE CheckFields(non_zero_fields(s), 1)

\* the error validate_input raises, NoError when it returns
validate_input(s) ==
    LET e1 == CheckCompanyName(s.company_name)
        e2 == CheckFields(non_zero_fields(s), 1)
    IN  IF e1 # NoError THEN e1
        ELSE IF e2 # NoError THEN e2
        ELSE CheckPercent(s.recycled_waste_percent)

(***************************************************************************)
(* compute: the external calls.  emission_calculator is another package;   *)
(* its two functions are total and deterministic in the validated inputs.  *)
(***************************************************************************)
make_dataframe(s) == [dataframe |-> s]
draw_report_figure(df) == [figure |-> df]

\* base64.b64encode(plot.to_image(width=1400, height=800, format="png"))
img_data_of(plot) == [base64 |-> [png |-> plot]]

Prefix == <<".", "/", "r", "e", "p", "o", "r", "t", "s", "/">>
Suffix == <<"_", "r", "e", "p", "o", "r", "t", ".", "p", "d", "f">>

\* slip: the name used without .lower()
file_path_of_NoLower(company_name) ==
    Prefix \o Slice(replace(company_name, " ", "_"), StemMax) \o Suffix

\* f'./reports/{company_name.lower().replace(' ', '_')[:10]}_report.pdf'
file_path_of(company_name) ==
    Prefix \o Slice(replace(lower(company_name), " ", "_"), StemMax) \o Suffix

(***************************************************************************)
(* The file system under the working directory.  A location is the         *)
(* sequence of path components from the working directory.  The program    *)
(* creates no directory: the working directory and ./reports are all there *)
(* is.                                                                     *)
(***************************************************************************)
Reports == <<"r", "e", "p", "o", "r", "t", "s">>
Dirs == {<<>>, <<Reports>>}

RECURSIVE SplitFrom(_, _, _)
SplitFrom(p, cur, acc) ==
    IF p = <<>> THEN Append(acc, cur)
    ELSE IF Head(p) = "/" THEN SplitFrom(Tail(p), <<>>, Append(acc, cur))
    ELSE SplitFrom(Tail(p), Append(cur, Head(p)), acc)

\* the components of a path, split at "/"
Split(p) == SplitFrom(p, <<>>, <<>>)

\* walking the components: "" and "." stay, ".." goes up, a name goes down
RECURSIVE Walk(_, _)
Walk(comps, at) ==
    IF comps = <<>> THEN at
    ELSE LET c == Head(comps) IN
         IF c = <<>> \/ c = <<".">> THEN Walk(Tail(comps), at)
         ELSE IF c = <<".", ".">> /\ at # <<>> /\ at[Len(at)] # <<".", ".">>
              THEN Walk(Tail(comps), SubSeq(at, 1, Len(at) - 1))
         ELSE Walk(Tail(comps), Append(at, c))

\* the directory a path's last component is created in
ParentOf(p) == LET c == Split(p) IN Walk(SubSeq(c, 1, Len(c) - 1), <<>>)

\* where a path's file lands
Location(p) == LET c == Split(p) IN Append(ParentOf(p), c[Len(c)])

\* open(file_path, "wb"): FileNotFoundError when the directory is missing
CanWrite(p) == ParentOf(p) \in Dirs

NoFiles == [p \in {} |-> None]

\* plot.write_image(file_path, ...) on a file system fs
write_image(fs, p, plot) ==
    LET at == Location(p) IN
    [q \in DOMAIN fs \cup {at} |-> IF q = at THEN [pdf |-> plot] ELSE fs[q]]

\* Python x + y on two raw inputs: float addition, str concatenation, or
\* TypeError for a str and a number, or None
Add(x, y) ==
    CASE x.k \in {"num", "nan"} /\ y.k \in {"num", "nan"} ->
            IF x.k = "nan" \/ y.k = "nan" THEN [k |-> "nan", v |-> 0]
            ELSE [k |-> "f", v |-> x.v + y.v]
      [] x.k \in {"numstr", "str"} /\ y.k \in {"numstr", "str"} ->
            [k |-> "strcat", v |-> 0]
      [] OTHER -> [k |-> "TypeError", v |-> 0]

\* format(v, ".2f"): ValueError for a str
Format2f(v) ==
    CASE v.k \in {"f", "nan"} -> v
      [] v.k = "strcat" -> [k |-> "ValueError", v |-> 0]
      [] OTHER -> v

NoReturn == [returned |-> FALSE]

\* the summary f-string
summary_of(s, energy, img_data) ==
    [company_name |-> s.company_name,
     energy |-> energy,
     annual_travel_kms |-> s.annual_travel_kms,
     monthly_waste_generated |-> s.monthly_waste_generated,
     recycled_waste_percent |-> s.recycled_waste_percent,
     img |-> img_data]

Outcome(e, r, fs, p, st) ==
    [err |-> e, ret |-> r, files |-> fs, path |-> p, steps |-> st]

\* slip: the report written before the inputs are validated
compute_WriteFirst(s, fs) ==
    LET e == validate_input(s)
        plot == draw_report_figure(make_dataframe(s))
        file_path == file_path_of(s.company_name)
        energy == Format2f(Add(s.avg_electric_bill, s.avg_gas_bill))
        upto_write == <<"make_dataframe", "draw_report_figure", "to_image", "write_image">>
    IN  IF ~CanWrite(file_path)
        THEN Outcome(Error("write_image", "FileNotFoundError"), NoReturn, fs,
                     file_path, upto_write)
        ELSE IF e # NoError
        THEN Outcome(e, NoReturn, write_image(fs, file_path, plot), file_path,
                     Append(upto_write, "validate_input"))
        ELSE IF Raises(energy)
        THEN Outcome(Error("summary", energy.k), NoReturn,
                     write_image(fs, file_path, plot), file_path,
                     upto_write \o <<"validate_input", "summary">>)
        ELSE Outcome(NoError,
                     [returned |-> TRUE,
                      summary |-> summary_of(s, energy, img_data_of(plot)),
                      download_button |-> file_path],
                     write_image(fs, file_path, plot), file_path,
                     upto_write \o <<"validate_input", "summary", "DownloadButton">>)

(***************************************************************************)
(* compute(...) called on file system fs: the error raised (NoError when   *)
(* it returns), what it returns, the file system it leaves, the file_path  *)
(* it built and the calls it made.                                         *)
(***************************************************************************)
compute(s, fs) ==
    LET e == validate_input(s)
        df == make_dataframe(s)
        plot == draw_report_figure(df)
        img_data == img_data_of(plot)
        file_path == file_path_of(s.company_name)
        energy == Format2f(Add(s.avg_electric_bill, s.avg_gas_bill))
        upto_image == <<"validate_input", "make_dataframe", "draw_report_figure", "to_image">>
        upto_write == Append(upto_image, "write_image")
    IN  IF e # NoError
        THEN Outcome(e, NoReturn, fs, <<>>, <<"validate_input">>)
        ELSE IF ~CanWrite(file_path)
        THEN Outcome(Error("write_image", "FileNotFoundError"), NoReturn, fs,
                     file_path, upto_write)
        ELSE IF Raises(energy)
        THEN Outcome(Error("summary", energy.k), NoReturn,
                     write_image(fs, file_path, plot), file_path,
                     Append(upto_write, "summary"))
        ELSE Outcome(NoError,
                     [returned |-> TRUE,
                      summary |-> summary_of(s, energy, img_data),
                      download_button |-> file_path],
                     write_image(fs, file_path, plot), file_path,
                     upto_write \o <<"summary", "DownloadButton">>)

(***************************************************************************)
(* Inputs.                                                                 *)
(***************************************************************************)
Rep(c, n) == [i \in 1..n |-> c]

NumFields ==
    {"avg_electric_bill", "avg_gas_bill", "avg_transport_cost",
     "monthly_waste_generated", "recycled_waste_percent",
     "annual_travel_kms", "fuel_efficiency"}

\* the form's initial numbers (value=1.0, recycled 0.0) and a company name
Default ==
    [company_name |-> <<"A", "b">>,
     avg_electric_bill |-> Num(Scale),
     avg_gas_bill |-> Num(Scale),
     avg_transport_cost |-> Num(Scale),
     monthly_waste_generated |-> Num(Scale),
     recycled_waste_percent |-> Num(0),
     annual_travel_kms |-> Num(Scale),
     fuel_efficiency |-> Num(Scale)]

Grid ==
    {-1, 0, 1, Scale,
     PercentMax * Scale, PercentMax * Scale + 1,
     WasteCeiling * Scale, WasteCeiling * Scale + 1,
     ElectricityCeiling * Scale, ElectricityCeiling * Scale + 1}

NumericInputs == {None, BadStr, NaN, NumStr(Scale), NumStr(0)} \cup {Num(n) : n \in Grid}

Names ==
    {<<>>, <<" ">>, <<" ", "\t">>, Rep(" ", NameMax), Rep(" ", NameMax + 1),
     <<"a">>, <<"A", "b">>, <<"a", " ", "b">>,
     Rep("a", NameMax - 1), Rep("a", NameMax), Rep("a", NameMax + 1),
     <<" ">> \o Rep("a", NameMax - 1), <<" ">> \o Rep("a", NameMax)}

With(D, a, n) ==
    [f \in DOMAIN Default |->
        IF f = "company_name" THEN n ELSE IF f \in D THEN a[f] ELSE Default[f]]

\* the sets of numeric fields that differ from Default in a checked submission
Deviations == {D \in SUBSET NumFields : Cardinality(D) <= MaxDeviations}

\* the company names tried along with the numeric fields D
NamesWith(D) == IF Cardinality(D) < MaxDeviations THEN Names ELSE {Default.company_name}

\* the submissions compute is run on
ComputeNames ==
    {<<>>, <<"A", "b">>, <<"A", "B">>, <<"a", " ", "b">>, <<"a", "_", "b">>,
     <<"a", "/", "b">>, <<".", ".", "/", "a", "b">>,
     Rep("a", StemMax) \o <<"x">>, Rep("a", StemMax) \o <<"y">>,
     <<"U+0130", " ">> \o Rep("c", StemMax - 2)}

Profiles ==
    {With({}, <<>>, <<>>),
     With({"avg_electric_bill"}, [avg_electric_bill |-> Num(ElectricityCeiling * Scale)], <<>>),
     With({"avg_gas_bill"}, [avg_gas_bill |-> NumStr(Scale)], <<>>),
     With({"monthly_waste_generated"}, [monthly_waste_generated |-> NaN], <<>>),
     With({"avg_electric_bill"}, [avg_electric_bill |-> None], <<>>),
     With({"recycled_waste_percent"}, [recycled_waste_percent |-> Num(PercentMax * Scale + 1)], <<>>)}

ComputeInputs == {[p EXCEPT !.company_name = n] : p \in Profiles, n \in ComputeNames}

(***************************************************************************)
(* The application: the submit button calls compute, one submission at a   *)
(* time, on the file system the earlier submissions left.                  *)
(***************************************************************************)
Init ==
    /\ sub = Default
    /\ err = NoError
    /\ ret = NoReturn
    /\ files = NoFiles
    /\ path = <<>>
    /\ steps = <<>>
    /\ calls = 0

Submit(s) ==
    /\ calls < MaxCalls
    /\ LET out == compute(s, files) IN
        /\ sub' = s
        /\ err' = out.err
        /\ ret' = out.ret
        /\ files' = out.files
        /\ path' = out.path
        /\ steps' = out.steps
    /\ calls' = calls + 1

Next == \E s \in ComputeInputs : Submit(s)

Spec == Init /\ [][Next]_vars

(***************************************************************************)
(* validate_input on its own: one call on each checked submission.         *)
(***************************************************************************)
InitValidate ==
    /\ \E D \in Deviations : \E a \in [D -> NumericInputs] : \E n \in NamesWith(D) :
          sub = With(D, a, n)
    /\ err = NoError
    /\ ret = NoReturn
    /\ files = NoFiles
    /\ path = <<>>
    /\ steps = <<>>
    /\ calls = 0

Validate ==
    /\ steps = <<>>
    /\ err' = validate_input(sub)
    /\ steps' = <<"validate_input">>
    /\ UNCHANGED <<sub, ret, files, path, calls>>

NextValidate == Validate

SpecValidate == InitValidate /\ [][NextValidate]_vars

(***************************************************************************)
(* The vocabulary of the properties: what the specification calls a valid  *)
(* field, stated on the raw inputs.                                        *)
(***************************************************************************)
\* float() raises on it: None, or a str that is no number
NonNumeric(v) == v.k \in {"none", "str"}
IsNumber(v) == v.k \in {"num", "numstr"}
NumberAbove(v, n) == IsNumber(v) /\ v.v > n * Scale
NumberBelow(v, n) == IsNumber(v) /\ v.v < n * Scale
NumberEqual(v, n) == IsNumber(v) /\ v.v = n * Scale
NumberAtMost(v, n) == NumberBelow(v, n) \/ NumberEqual(v, n)

PositiveFields ==
    <<"avg_electric_bill", "avg_gas_bill", "avg_transport_cost",
      "monthly_waste_generated", "annual_travel_kms", "fuel_efficiency">>

Label(key) ==
    CASE key = "avg_electric_bill" -> "Electricity Bill"
      [] key = "avg_gas_bill" -> "Gas Bill"
      [] key = "avg_transport_cost" -> "Transport Cost"
      [] key = "monthly_waste_generated" -> "Monthly Waste"
      [] key = "annual_travel_kms" -> "Annual Travel Distance"
      [] key = "fuel_efficiency" -> "Fuel Efficiency"
      [] key = "recycled_waste_percent" -> "Recycled waste percentage"
      [] OTHER -> "Company name"

Blank(n) == \A i \in 1..Len(n) : n[i] \in Whitespace

ValidField(key, v) ==
    CASE key = "company_name" -> ~Blank(v) /\ Len(v) <= NameMax
      [] key = "recycled_waste_percent" -> NumberAtMost(v, PercentMax) /\ ~NumberBelow(v, 0)
      [] key = "avg_electric_bill" -> NumberAbove(v, 0) /\ NumberAtMost(v, ElectricityCeiling)
      [] key = "monthly_waste_generated" -> NumberAbove(v, 0) /\ NumberAtMost(v, WasteCeiling)
      [] OTHER -> NumberAbove(v, 0)

OthersValid(s, key) == \A f \in DOMAIN s \ {key} : ValidField(f, s[f])

Validated == steps = <<"validate_input">>
Rejected == Validated /\ err # NoError
Accepted == Validated /\ err = NoError

(***************************************************************************)
(* C1: each of the six must-be-positive fields is rejected when it is      *)
(* non-numeric or a number <= 0; when the other fields are valid the error *)
(* is the one of that field.                                               *)
(***************************************************************************)
C1_NonPositiveRejected ==
    Validated =>
        \A i \in 1..Len(PositiveFields) :
            LET key == PositiveFields[i] IN
            (NonNumeric(sub[key]) \/ NumberAtMost(sub[key], 0)) =>
                /\ err # NoError
                /\ OthersValid(sub, key) => err.name = Label(key)

C1_Witness ==
    /\ Rejected
    /\ NumberEqual(sub.fuel_efficiency, 0)
    /\ OthersValid(sub, "fuel_efficiency")
    /\ err = Error("Fuel Efficiency", "must be positive")

(***************************************************************************)
(* C2: an empty or whitespace-only company name and a company name longer  *)
(* than 100 characters are rejected; a non-blank name of exactly 100       *)
(* characters is accepted when all other fields are valid.                 *)
(***************************************************************************)
C2_CompanyName ==
    Validated =>
        /\ (Blank(sub.company_name) \/ Len(sub.company_name) > NameMax)
              => (err # NoError /\ err.name = "Company name")
        /\ (/\ Len(sub.company_name) = NameMax
            /\ ~Blank(sub.company_name)
            /\ OthersValid(sub, "company_name")) => err = NoError

C2_Witness ==
    /\ Accepted
    /\ Len(sub.company_name) = NameMax
    /\ \E i \in 1..NameMax : sub.company_name[i] = " "

(***************************************************************************)
(* C3: a recycled-waste percentage that is non-numeric, below 0 or above   *)
(* 100 is rejected; 0 and 100 are accepted when all other fields are valid.*)
(***************************************************************************)
C3_Percent ==
    Validated =>
        LET p == sub.recycled_waste_percent IN
        /\ (NonNumeric(p) \/ NumberBelow(p, 0) \/ NumberAbove(p, PercentMax))
              => err # NoError
        /\ (/\ NumberEqual(p, 0) \/ NumberEqual(p, PercentMax)
            /\ OthersValid(sub, "recycled_waste_percent")) => err = NoError

C3_Witness ==
    /\ Accepted
    /\ NumberEqual(sub.recycled_waste_percent, 0)
    /\ sub.recycled_waste_percent.k = "numstr"

(***************************************************************************)
(* C4: an electricity bill above 10000 is rejected; exactly 10000 is       *)
(* accepted when all other fields are valid.                               *)
(***************************************************************************)
C4_ElectricityCeiling ==
    Validated =>
        /\ NumberAbove(sub.avg_electric_bill, ElectricityCeiling) => err # NoError
        /\ (/\ NumberEqual(sub.avg_electric_bill, ElectricityCeiling)
            /\ OthersValid(sub, "avg_electric_bill")) => err = NoError

C4_Witness ==
    /\ Accepted
    /\ NumberEqual(sub.avg_electric_bill, ElectricityCeiling)
    /\ sub.company_name # Default.company_name

(***************************************************************************)
(* C5: a monthly waste above 1000 is rejected, exactly 1000 is accepted    *)
(* when all other fields are valid, and no other field is held to this     *)
(* ceiling: a valid submission with another amount above 1000 is accepted. *)
(***************************************************************************)
C5_WasteCeiling ==
    Validated =>
        /\ NumberAbove(sub.monthly_waste_generated, WasteCeiling) => err # NoError
        /\ (/\ NumberEqual(sub.monthly_waste_generated, WasteCeiling)
            /\ OthersValid(sub, "monthly_waste_generated")) => err = NoError
        /\ \A i \in 1..Len(PositiveFields) :
              LET key == PositiveFields[i] IN
              (/\ key # "monthly_waste_generated"
               /\ NumberAbove(sub[key], WasteCeiling)
               /\ ValidField(key, sub[key])
               /\ OthersValid(sub, key)) => err = NoError

C5_Witness ==
    /\ Accepted
    /\ NumberEqual(sub.monthly_waste_generated, WasteCeiling)
    /\ NumberAbove(sub.annual_travel_kms, WasteCeiling)

(***************************************************************************)
(* C10: the checks run in a fixed order and stop at the first failure: the *)
(* one error raised is that of the earliest violated check.                *)
(***************************************************************************)
Rule(v, e) == [violated |-> v, e |-> e]

FieldRules(s, key) ==
    << Rule(NonNumeric(s[key]), Error(Label(key), "must be a valid number")),
       Rule(NumberAtMost(s[key], 0), Error(Label(key), "must be positive")),
       Rule(\/ key = "avg_electric_bill" /\ NumberAbove(s[key], ElectricityCeiling)
            \/ key = "monthly_waste_generated" /\ NumberAbove(s[key], WasteCeiling),
            Error(Label(key), IF key = "avg_electric_bill"
                              THEN "unrealistically high" ELSE "extremely high")) >>

Rules(s) ==
    << Rule(Blank(s.company_name), Error("Company name", "empty or whitespace")),
       Rule(Len(s.company_name) > NameMax, Error("Company name", "too long")) >>
    \o FieldRules(s, PositiveFields[1]) \o FieldRules(s, PositiveFields[2])
    \o FieldRules(s, PositiveFields[3]) \o FieldRules(s, PositiveFields[4])
    \o FieldRules(s, PositiveFields[5]) \o FieldRules(s, PositiveFields[6])
    \o << Rule(NonNumeric(s.recycled_waste_percent),
               Error("Recycled waste percentage", "must be a valid number")),
          Rule(\/ NumberBelow(s.recycled_waste_percent, 0)
               \/ NumberAbove(s.recycled_waste_percent, PercentMax),
               Error("Recycled waste percentage", "must be between 0 and 100")) >>

ViolatedRules(s) == LET r == Rules(s) IN {i \in 1..Len(r) : r[i].violated}

EarliestViolation(s) ==
    LET r == Rules(s)
        violated == {i \in 1..Len(r) : r[i].violated}
    IN  IF violated = {} THEN NoError
        ELSE r[CHOOSE i \in violated : \A j \in violated : i <= j].e

C10_FirstFailureWins == Validated => err = EarliestViolation(sub)

C10_Witness ==
    /\ Rejected
    /\ Cardinality(ViolatedRules(sub)) >= 2
    /\ err.name = "Annual Travel Distance"

(***************************************************************************)
(* Properties of compute, over the runs of Spec.                           *)
(***************************************************************************)
Called == steps # <<>>
Wrote == Called /\ path # <<>> /\ err # Error("write_image", "FileNotFoundError")

UpperCase == {"A", "B", "U+0130"}

\* s with every " " taken out
RECURSIVE StripSpaces(_)
StripSpaces(s) ==
    IF s = <<>> THEN <<>>
    ELSE IF Head(s) = " " THEN StripSpaces(Tail(s))
    ELSE <<Head(s)>> \o StripSpaces(Tail(s))

(***************************************************************************)
(* C6: for every submission that passes validate_input, compute completes  *)
(* without error and returns a summary with its image payload.             *)
(***************************************************************************)
C6_ValidSubmissionReturns ==
    (Called /\ ViolatedRules(sub) = {}) =>
        /\ err = NoError
        /\ ret.returned
        /\ ret.summary.img = img_data_of(draw_report_figure(make_dataframe(sub)))

(***************************************************************************)
(* C7, as stated: the report file is ./reports/<stem>_report.pdf, where    *)
(* <stem> is the company name lowercased, its spaces taken out, cut to 10  *)
(* characters.                                                             *)
(***************************************************************************)
C7_SpacesStripped ==
    Wrote => path = Prefix \o Slice(StripSpaces(lower(sub.company_name)), StemMax) \o Suffix

(***************************************************************************)
(* C7, amended: the report path is ./reports/<stem>_report.pdf, where      *)
(* <stem> is the first 10 characters (all of them when there are fewer) of *)
(* the lowercased company name with every space replaced by an underscore: *)
(* the stem holds no space and no upper-case character.                    *)
(***************************************************************************)
C7_SpacesReplaced ==
    Wrote =>
        LET low == lower(sub.company_name)
            n == IF Len(low) < StemMax THEN Len(low) ELSE StemMax
        IN  /\ Len(path) = Len(Prefix) + n + Len(Suffix)
            /\ SubSeq(path, 1, Len(Prefix)) = Prefix
            /\ SubSeq(path, Len(Prefix) + n + 1, Len(path)) = Suffix
            /\ \A i \in 1..n :
                  LET c == path[Len(Prefix) + i] IN
                  /\ c = (IF low[i] = " " THEN "_" ELSE low[i])
                  /\ c \notin UpperCase \cup {" "}

C7_Witness ==
    /\ Wrote
    /\ Len(lower(sub.company_name)) > StemMax
    /\ \E i \in 1..Len(sub.company_name) : sub.company_name[i] = " "
    /\ \E i \in 1..Len(sub.company_name) : sub.company_name[i] \in UpperCase
    /\ Location(path) \in DOMAIN files

(***************************************************************************)
(* C8: a report file written for one submission is not changed by a later  *)
(* submission.  (A later submission with the same inputs writes the same   *)
(* report, which changes nothing.)                                         *)
(***************************************************************************)
C8_NoOverwrite ==
    [][\A p \in DOMAIN files : p \in DOMAIN files' /\ files'[p] = files[p]]_vars

(***************************************************************************)
(* C9: when a submission fails validation, compute raises the validation   *)
(* error and has done nothing else: no dataframe, no chart, no file_path,  *)
(* no report file created or overwritten, nothing returned.                *)
(***************************************************************************)
C9_InvalidHasNoEffect ==
    [][ViolatedRules(sub') # {} =>
          /\ err' = EarliestViolation(sub')
          /\ steps' = <<"validate_input">>
          /\ files' = files
          /\ path' = <<>>
          /\ ret' = NoReturn]_vars

C9_Witness ==
    /\ steps = <<"validate_input">>
    /\ err = Error("Electricity Bill", "must be a valid number")
    /\ files # NoFiles
    /\ Location(file_path_of(sub.company_name)) \in DOMAIN files

====
